---- MODULE Spec2Model ----
(***************************************************************************)
(* PDF Text Extractor (src/app.py): a Streamlit script that is re-run from *)
(* top to bottom after every user interaction.  One run of main() is       *)
(* modelled as a chain of steps (pc); the widget values that survive a     *)
(* re-run (uploaded file, page slider, canvas objects) are the session     *)
(* state.  Numbers that the code keeps in Python floats are modelled as    *)
(* exact rationals <<n, d>>; the one place where double rounding changes a *)
(* result (int() of a product that is an integer over the rationals) is    *)
(* modelled by the tables WidthDeficit and HeightDeficit.                  *)
(***************************************************************************)
EXTENDS Integers, Sequences, FiniteSets, TLC

\* ------------------------------------------------------------------ bounds
MaxObjects == 2
MaxUnits == 10

\* ------------------------------------------------------- program constants
MaxWidth == 800
MaxHeight == 1000
EnumerateStart == 1

\* ------------------------------------------------- rational arithmetic
Abs(n) == IF n < 0 THEN -n ELSE n

RECURSIVE GCD(_, _)
GCD(a, b) == IF b = 0 THEN a ELSE GCD(b, a % b)

\* the rational n/d (d # 0) in lowest terms with a positive denominator
Norm(n, d) ==
  LET s == IF d < 0 THEN -1 ELSE 1
      g == GCD(Abs(n), Abs(d))
  IN  <<(s * n) \div g, (s * d) \div g>>

R(n) == <<n, 1>>
RMul(a, b) == Norm(a[1] * b[1], a[2] * b[2])
RDiv(a, b) == Norm(a[1] * b[2], a[2] * b[1])
RLeq(a, b) == a[1] * b[2] <= b[1] * a[2]
RLess(a, b) == a[1] * b[2] < b[1] * a[2]
RMin(a, b) == IF RLeq(a, b) THEN a ELSE b
IsInt(a) == a[2] = 1
Floor(a) == a[1] \div a[2]

\* Python round(): nearest integer, ties to the even one
PyRound(a) ==
  LET f == Floor(a)
      twice == 2 * (a[1] - f * a[2])
  IN  IF twice < a[2] THEN f
      ELSE IF twice > a[2] THEN f + 1
      ELSE IF f % 2 = 0 THEN f ELSE f + 1

\* ------------------------------------------------------ Page Rasterizer
\* Dimensions d for which the double d * (800 / d), resp. d * (1000 / d),
\* is just below 800, resp. 1000 (IEEE-754 round-to-nearest), among the
\* multiples of 97, resp. 99, up to 1400 and the page sizes of Docs.
WidthDeficit == {97, 194, 388, 776}
HeightDeficit == {99, 198, 396, 792}

\* scale_factor = min(max_width / img_pil.width, max_height / img_pil.height)
ScaleFactor(w, h) == RMin(RDiv(R(MaxWidth), R(w)), RDiv(R(MaxHeight), R(h)))

\* the double dim * scale_factor: its exact value v, and whether the double
\* lies just below v (only when v is the bound itself and dim is in the table)
FloatProduct(dim, s, max, deficit) ==
  LET v == RMul(R(dim), s)
  IN  [v |-> v, below |-> (v = R(max) /\ dim \in deficit)]

\* int(x) of a non-negative double
IntOf(fp) == IF fp.below /\ IsInt(fp.v) THEN Floor(fp.v) - 1 ELSE Floor(fp.v)

\* mutant: round() instead of int()
ScaledDimsRound(w, h) ==
  LET s == ScaleFactor(w, h)
  IN  <<PyRound(RMul(R(w), s)), PyRound(RMul(R(h), s))>>

\* mutant: each axis stretched by its own factor
ScaledDimsStretch(w, h) ==
  <<IntOf(FloatProduct(w, RDiv(R(MaxWidth), R(w)), MaxWidth, WidthDeficit)),
    IntOf(FloatProduct(h, RDiv(R(MaxHeight), R(h)), MaxHeight, HeightDeficit))>>

\* (new_width, new_height)
ScaledDims(w, h) ==
  LET s == ScaleFactor(w, h)
  IN  <<IntOf(FloatProduct(w, s, MaxWidth, WidthDeficit)),
        IntOf(FloatProduct(h, s, MaxHeight, HeightDeficit))>>

\* ---------------------------------------------------- Coordinate Mapper
\* mutant: the vertical factor computed from the horizontal page size
ScaleBBoxToPdfMixed(box, cdims, pdims) ==
  LET scale_x == RDiv(R(pdims[1]), R(cdims[1]))
      scale_y == RDiv(R(pdims[1]), R(cdims[2]))
  IN  <<RMul(box[1], scale_x), RMul(box[2], scale_y),
        RMul(box[3], scale_x), RMul(box[4], scale_y)>>

\* scale_bbox_to_pdf(bbox, canvas_dims, pdf_dims)
ScaleBBoxToPdf(box, cdims, pdims) ==
  LET scale_x == RDiv(R(pdims[1]), R(cdims[1]))
      scale_y == RDiv(R(pdims[2]), R(cdims[2]))
  IN  <<RMul(box[1], scale_x), RMul(box[2], scale_y),
        RMul(box[3], scale_x), RMul(box[4], scale_y)>>

\* ------------------------------------------------------------ documents
\* A page: size in points, size of its rendered image (72 dpi, so the same
\* numbers), whether page.to_image() succeeds, and its words in reading
\* order, each with its box in points.
Word(str, x0, y0, x1, y1) == [s |-> str, x0 |-> x0, y0 |-> y0, x1 |-> x1, y1 |-> y1]
Page(w, h, ok, ws) == [width |-> w, height |-> h, renderable |-> ok, words |-> ws]

NoFile == "no file"
NoPdf == "None"
Files == {"bad", "docA", "docB", "docC"}

\* what pdfplumber.open makes of each uploadable file
Docs ==
  [f \in Files |->
     CASE f = "bad"  -> [valid |-> FALSE, pages |-> <<>>]
       [] f = "docA" -> [valid |-> TRUE, pages |->
            << Page(612, 792, TRUE, << Word("a1", 100, 100, 150, 120) >>),
               Page(612, 792, TRUE, << Word("c2", 100, 100, 150, 120),
                                       Word("b2", 300, 400, 350, 420) >>) >>]
       [] f = "docB" -> [valid |-> TRUE, pages |->
            << Page(600, 800, TRUE, << Word("d1", 100, 100, 150, 120) >>),
               Page(300, 400, TRUE, << Word("e2", 50, 50, 100, 70) >>) >>]
       [] f = "docC" -> [valid |-> TRUE, pages |->
            << Page(612, 792, TRUE, << >>),
               Page(612, 792, FALSE, << >>) >>] ]

\* pdf.pages of an opened document (none when load_pdf returned None)
PagesOf(p) == IF p \in Files THEN Docs[p].pages ELSE <<>>

\* the rectangles a user may draw: fabric.js objects {left, top, width, height}
Rect(l, t, w, h) == [left |-> l, top |-> t, width |-> w, height |-> h]
RectChoices ==
  { Rect(100, 100, 200, 100), Rect(300, 400, 200, 200),
    Rect(100, 100, 0, 100), Rect(300, 400, 200, 0) }

\* --------------------------------------------------------- text as tokens
\* A Python str is a sequence of tokens: newlines, page headers, words.
NL == [k |-> "nl", n |-> 0, s |-> "\n"]
Hdr(n) == [k |-> "hdr", n |-> n, s |-> "--- Page N ---"]
Wd(str) == [k |-> "w", n |-> 0, s |-> str]

\* str.strip(): drop leading and trailing whitespace
RECURSIVE LStrip(_)
LStrip(t) == IF t # <<>> /\ Head(t).k = "nl" THEN LStrip(Tail(t)) ELSE t
RECURSIVE RStrip(_)
RStrip(t) ==
  IF t # <<>> /\ t[Len(t)].k = "nl" THEN RStrip(SubSeq(t, 1, Len(t) - 1)) ELSE t
Strip(t) == RStrip(LStrip(t))

\* ------------------------------------------------- Region Text Extractor
\* page.within_bbox(bbox) raises ValueError when the box has zero area or is
\* not fully within the page (pdfplumber's check of a proposed crop box)
WithinBBoxRaises(page, box) ==
  \/ box[1] = box[3]
  \/ box[2] = box[4]
  \/ ~ ( /\ RLeq(R(0), box[1]) /\ RLeq(R(0), box[2])
         /\ RLeq(box[3], R(page.width)) /\ RLeq(box[4], R(page.height)) )

WordWithin(w, box) ==
  /\ RLeq(box[1], R(w.x0)) /\ RLeq(box[2], R(w.y0))
  /\ RLeq(R(w.x1), box[3]) /\ RLeq(R(w.y1), box[4])

RECURSIVE WordTokens(_, _)
WordTokens(ws, box) ==
  IF ws = <<>> THEN <<>>
  ELSE (IF WordWithin(Head(ws), box) THEN <<Wd(Head(ws).s)>> ELSE <<>>)
       \o WordTokens(Tail(ws), box)

\* page.within_bbox(scaled_bbox).extract_text(), when it does not raise
PageExtractText(page, box) == WordTokens(page.words, box)

\* mutant: a header for every page, also for one without text
AppendPageAlways(all_text, page_number, text) ==
  all_text \o <<NL, NL, Hdr(page_number), NL>> \o text

\* if text: all_text += f"\n\n--- Page {page_number} ---\n{text}"
AppendPage(all_text, page_number, text) ==
  IF text # <<>>
  THEN all_text \o <<NL, NL, Hdr(page_number), NL>> \o text
  ELSE all_text

\* the for loop from page index i on; an exception of the library ends it
RECURSIVE ExtractLoop(_, _, _, _)
ExtractLoop(pages, i, box, all_text) ==
  IF i > Len(pages) THEN [raised |-> FALSE, text |-> all_text]
  ELSE IF WithinBBoxRaises(pages[i], box) THEN [raised |-> TRUE, text |-> <<>>]
  ELSE ExtractLoop(pages, i + 1, box,
         AppendPage(all_text, i - 1 + EnumerateStart,
                    PageExtractText(pages[i], box)))

\* extract_text_from_pdf(pdf, scaled_bbox): all_text starts as ""
ExtractTextFromPdf(pages, box) == ExtractLoop(pages, 1, box, <<>>)

\* mutant: the first object drawn instead of the last
FirstObject(objs) == objs[1]

\* canvas_result.json_data["objects"][-1]
LastObject(objs) == objs[Len(objs)]

\* mutant: any value of pdf counts as a document
PdfTruthyAlways(p) == TRUE

\* if pdf:
PdfTruthy(p) == p # NoPdf

\* mutant: the page counts as rendered although no image came back
ImgTruthyAlways(img) == TRUE

\* if img_pil:
ImgTruthy(img) == img

\* ------------------------------------------------------------------ state
VARIABLES
  uploaded,        \* st.sidebar.file_uploader: the uploaded file, or NoFile
  pageSel,         \* st.sidebar.slider: the selected page, 1-based
  objects,         \* the objects of the canvas with key "canvas"
  pc,              \* position of the current run of main()
  pdf,             \* main's local pdf: a file of Files, or NoPdf
  openDocs,        \* documents opened by pdfplumber.open and not closed
  page_number,     \* main's local page_number (0-based)
  img_pil,         \* whether extract_page_image returned an image
  canvas_dims,     \* (new_width, new_height); <<0, 0>> for None
  pdf_dims,        \* (page.width, page.height); <<0, 0>> for None
  bbox,            \* (x0, y0, x1, y1) of the last object; <<>> before
  scaled_bbox,     \* the box in points, as rationals; <<>> before
  extracted_text,  \* the str returned by extract_text_from_pdf
  shown,           \* the content of st.text_area and of the download button
  calls,           \* the functions this run has called
  notices,         \* the messages this run has put on the page
  outcome,         \* how the run ended
  prevText,        \* the extracted_text of the previous run
  calc             \* state of the stand-alone application of the pure functions

vars == <<uploaded, pageSel, objects, pc, pdf, openDocs, page_number, img_pil,
          canvas_dims, pdf_dims, bbox, scaled_bbox, extracted_text, shown,
          calls, notices, outcome, prevText, calc>>

session == <<uploaded, pageSel, objects>>
locals == <<pdf, page_number, img_pil, canvas_dims, pdf_dims, bbox,
            scaled_bbox, extracted_text>>

CalcIdle == [pc |-> "off", w |-> 0, h |-> 0, rect |-> <<>>, pt |-> <<0, 0>>,
             dims |-> <<0, 0>>, mapped |-> <<>>, back |-> <<>>]

Notice(kind, msg) == [kind |-> kind, msg |-> msg]

\* the first run of the script, before any interaction
Init ==
  /\ uploaded = NoFile /\ pageSel = 1 /\ objects = <<>>
  /\ pc = "main"
  /\ pdf = NoPdf /\ openDocs = {} /\ page_number = 0 /\ img_pil = FALSE
  /\ canvas_dims = <<0, 0>> /\ pdf_dims = <<0, 0>>
  /\ bbox = <<>> /\ scaled_bbox = <<>> /\ extracted_text = <<>>
  /\ shown = <<>> /\ calls = {} /\ notices = <<>> /\ outcome = "running"
  /\ prevText = <<>>
  /\ calc = CalcIdle

\* ------------------------------------------------------ user interactions
\* Streamlit re-runs the script: a fresh frame and an empty page
Rerun ==
  /\ pc' = "main"
  /\ pdf' = NoPdf /\ page_number' = 0 /\ img_pil' = FALSE
  /\ canvas_dims' = <<0, 0>> /\ pdf_dims' = <<0, 0>>
  /\ bbox' = <<>> /\ scaled_bbox' = <<>> /\ extracted_text' = <<>>
  /\ shown' = <<>> /\ calls' = {} /\ notices' = <<>> /\ outcome' = "running"
  /\ prevText' = extracted_text
  /\ UNCHANGED <<openDocs, calc>>

\* the user uploads another file; the canvas keeps or loses its objects
Upload ==
  /\ pc = "done"
  /\ \E f \in Files \ {uploaded} : uploaded' = f
  /\ pageSel' = 1
  /\ objects' \in {objects, <<>>}
  /\ Rerun

\* the user removes the uploaded file
RemoveUpload ==
  /\ pc = "done"
  /\ uploaded # NoFile
  /\ uploaded' = NoFile /\ pageSel' = 1 /\ objects' = <<>>
  /\ Rerun

\* the user moves the slider st.sidebar.slider(..., 1, total_pages, 1)
SelectPage ==
  /\ pc = "done"
  /\ PdfTruthy(pdf)
  /\ \E n \in 1..Len(PagesOf(pdf)) : n # pageSel /\ pageSel' = n
  /\ objects' \in {objects, <<>>}
  /\ UNCHANGED uploaded
  /\ Rerun

\* the user draws one more rectangle on the displayed canvas
DrawRect ==
  /\ pc = "done"
  /\ "st_canvas" \in calls
  /\ Len(objects) < MaxObjects
  /\ \E r \in RectChoices :
       /\ r.left + r.width <= canvas_dims[1]
       /\ r.top + r.height <= canvas_dims[2]
       /\ objects' = Append(objects, r)
  /\ UNCHANGED <<uploaded, pageSel>>
  /\ Rerun

\* ------------------------------------------------------- one run of main()
\* main: title, uploader; "if uploaded_pdf:" and its else branch
MainStart ==
  /\ pc = "main"
  /\ IF uploaded # NoFile
     THEN /\ pc' = "load"
          /\ UNCHANGED <<notices, outcome>>
     ELSE /\ notices' = Append(notices,
                 Notice("info", "Upload a PDF file to start extracting text."))
          /\ outcome' = "need upload"
          /\ pc' = "done"
  /\ UNCHANGED <<session, locals, openDocs, shown, calls, prevText, calc>>

\* pdf = load_pdf(uploaded_pdf)
LoadPdf ==
  /\ pc = "load"
  /\ calls' = calls \cup {"load_pdf"}
  /\ IF Docs[uploaded].valid
     THEN /\ pdf' = uploaded
          /\ openDocs' = openDocs \cup {uploaded}
          /\ UNCHANGED notices
     ELSE /\ pdf' = NoPdf
          /\ notices' = Append(notices, Notice("error", "Failed to load PDF"))
          /\ UNCHANGED openDocs
  /\ pc' = "check pdf"
  /\ UNCHANGED <<session, page_number, img_pil, canvas_dims, pdf_dims, bbox,
                 scaled_bbox, extracted_text, shown, outcome, prevText, calc>>

\* "if pdf:": total_pages, the slider, page_number; else the error
CheckPdf ==
  /\ pc = "check pdf"
  /\ IF PdfTruthy(pdf)
     THEN /\ page_number' = pageSel - 1
          /\ pc' = "render"
          /\ UNCHANGED <<notices, outcome>>
     ELSE /\ notices' = Append(notices,
                 Notice("error", "Invalid PDF file. Please try again."))
          /\ outcome' = "invalid pdf"
          /\ pc' = "done"
          /\ UNCHANGED page_number
  /\ UNCHANGED <<session, pdf, openDocs, img_pil, canvas_dims, pdf_dims, bbox,
                 scaled_bbox, extracted_text, shown, calls, prevText, calc>>

\* img_pil, canvas_dims, pdf_dims = extract_page_image(pdf, page_number)
ExtractPageImage ==
  /\ pc = "render"
  /\ calls' = calls \cup {"extract_page_image"}
  /\ LET pages == PagesOf(pdf)
         ok == page_number + 1 \in DOMAIN pages
                 /\ pages[page_number + 1].renderable
     IN  IF ok
         THEN LET page == pages[page_number + 1]
                  dims == ScaledDims(page.width, page.height)
              IN  IF dims[1] > 0 /\ dims[2] > 0
                  THEN /\ img_pil' = TRUE
                       /\ canvas_dims' = dims
                       /\ pdf_dims' = <<page.width, page.height>>
                       /\ UNCHANGED notices
                  ELSE /\ img_pil' = FALSE
                       /\ canvas_dims' = <<0, 0>> /\ pdf_dims' = <<0, 0>>
                       /\ notices' = Append(notices,
                             Notice("error", "Error processing page image"))
         ELSE /\ img_pil' = FALSE
              /\ canvas_dims' = <<0, 0>> /\ pdf_dims' = <<0, 0>>
              /\ notices' = Append(notices,
                    Notice("error", "Error processing page image"))
  /\ pc' = "check img"
  /\ UNCHANGED <<session, pdf, openDocs, page_number, bbox, scaled_bbox,
                 extracted_text, shown, outcome, prevText, calc>>

\* "if img_pil:": the caption and st_canvas; else the error
CheckImg ==
  /\ pc = "check img"
  /\ IF ImgTruthy(img_pil)
     THEN /\ notices' = Append(notices,
                 Notice("write", "Page N: Draw a bounding box to select text"))
          /\ calls' = calls \cup {"st_canvas"}
          /\ pc' = "check box"
          /\ UNCHANGED outcome
     ELSE /\ notices' = Append(notices,
                 Notice("error", "Failed to process the selected page."))
          /\ outcome' = "render failed"
          /\ pc' = "done"
          /\ UNCHANGED calls
  /\ UNCHANGED <<session, locals, openDocs, shown, prevText, calc>>

\* "if canvas_result.json_data and ...["objects"]:" the last object's
\* corners and their display; else the hint
CheckBox ==
  /\ pc = "check box"
  /\ IF objects # <<>>
     THEN LET last_object == LastObject(objects)
              x0 == last_object.left
              y0 == last_object.top
          IN  /\ bbox' = <<x0, y0, x0 + last_object.width,
                           y0 + last_object.height>>
              /\ notices' = Append(notices,
                    Notice("write", "Bounding Box Coordinates"))
              /\ pc' = "scale"
              /\ UNCHANGED outcome
     ELSE /\ notices' = Append(notices,
                 Notice("info", "Draw a bounding box to select text."))
          /\ outcome' = "need box"
          /\ pc' = "done"
          /\ UNCHANGED bbox
  /\ UNCHANGED <<session, pdf, openDocs, page_number, img_pil, canvas_dims,
                 pdf_dims, scaled_bbox, extracted_text, shown, calls,
                 prevText, calc>>

\* scaled_bbox = scale_bbox_to_pdf((x0, y0, x1, y1), canvas_dims, pdf_dims)
ScaleBBox ==
  /\ pc = "scale"
  /\ calls' = calls \cup {"scale_bbox_to_pdf"}
  /\ scaled_bbox' = ScaleBBoxToPdf(<<R(bbox[1]), R(bbox[2]), R(bbox[3]),
                                     R(bbox[4])>>, canvas_dims, pdf_dims)
  /\ pc' = "extract"
  /\ UNCHANGED <<session, pdf, openDocs, page_number, img_pil, canvas_dims,
                 pdf_dims, bbox, extracted_text, shown, notices, outcome,
                 prevText, calc>>

\* extracted_text = extract_text_from_pdf(pdf, scaled_bbox); an exception of
\* within_bbox is caught nowhere and leaves main()
ExtractText ==
  /\ pc = "extract"
  /\ calls' = calls \cup {"extract_text_from_pdf"}
  /\ LET res == ExtractTextFromPdf(PagesOf(pdf), scaled_bbox)
     IN  IF res.raised
         THEN /\ outcome' = "uncaught exception"
              /\ pc' = "done"
              /\ UNCHANGED extracted_text
         ELSE /\ extracted_text' = res.text
              /\ pc' = "show"
              /\ UNCHANGED outcome
  /\ UNCHANGED <<session, pdf, openDocs, page_number, img_pil, canvas_dims,
                 pdf_dims, bbox, scaled_bbox, shown, notices, prevText, calc>>

\* "if extracted_text.strip():" text area and download; else the warning
Show ==
  /\ pc = "show"
  /\ IF Strip(extracted_text) # <<>>
     THEN /\ notices' = Append(notices, Notice("write", "Extracted Text"))
          /\ shown' = extracted_text
          /\ outcome' = "text"
     ELSE /\ notices' = Append(notices, Notice("warning",
                 "No text found in the selected area across all pages."))
          /\ outcome' = "no text"
          /\ UNCHANGED shown
  /\ pc' = "done"
  /\ UNCHANGED <<session, locals, openDocs, calls, prevText, calc>>

Next ==
  \/ Upload \/ RemoveUpload \/ SelectPage \/ DrawRect
  \/ MainStart \/ LoadPdf \/ CheckPdf \/ ExtractPageImage \/ CheckImg
  \/ CheckBox \/ ScaleBBox \/ ExtractText \/ Show

Spec == Init /\ [][Next]_vars

\* ------------------------------------ the pure functions on their own
\* Native page sizes, drawn rectangles and point sizes to which
\* extract_page_image and scale_bbox_to_pdf are applied directly.
CalcWidths == {97 * k : k \in 1..MaxUnits}
CalcHeights == {99 * k : k \in 1..MaxUnits}
CalcPointDims(w, h) == {<<w, h>>, <<612, 792>>, <<300, 400>>}
CalcRect(r) == <<R(r.left), R(r.top), R(r.left + r.width), R(r.top + r.height)>>

InitCalc ==
  /\ uploaded = NoFile /\ pageSel = 1 /\ objects = <<>>
  /\ pc = "off"
  /\ pdf = NoPdf /\ openDocs = {} /\ page_number = 0 /\ img_pil = FALSE
  /\ canvas_dims = <<0, 0>> /\ pdf_dims = <<0, 0>>
  /\ bbox = <<>> /\ scaled_bbox = <<>> /\ extracted_text = <<>>
  /\ shown = <<>> /\ calls = {} /\ notices = <<>> /\ outcome = "running"
  /\ prevText = <<>>
  /\ \E w \in CalcWidths, h \in CalcHeights, r \in RectChoices :
       \E pt \in CalcPointDims(w, h) :
         calc = [pc |-> "in", w |-> w, h |-> h, rect |-> CalcRect(r),
                 pt |-> pt, dims |-> <<0, 0>>, mapped |-> <<>>, back |-> <<>>]

main_vars == <<uploaded, pageSel, objects, pc, pdf, openDocs, page_number,
               img_pil, canvas_dims, pdf_dims, bbox, scaled_bbox,
               extracted_text, shown, calls, notices, outcome, prevText>>

\* the resize of extract_page_image on a w x h image
CalcRender ==
  /\ calc.pc = "in"
  /\ calc' = [calc EXCEPT !.pc = "rendered", !.dims = ScaledDims(calc.w, calc.h)]
  /\ UNCHANGED main_vars

\* scale_bbox_to_pdf from the rendered image to the point sizes
CalcMap ==
  /\ calc.pc = "rendered"
  /\ calc.dims[1] > 0 /\ calc.dims[2] > 0
  /\ calc' = [calc EXCEPT !.pc = "mapped",
                          !.mapped = ScaleBBoxToPdf(calc.rect, calc.dims, calc.pt)]
  /\ UNCHANGED main_vars

\* scale_bbox_to_pdf back, with the two dimension pairs swapped
CalcInverse ==
  /\ calc.pc = "mapped"
  /\ calc' = [calc EXCEPT !.pc = "back",
                          !.back = ScaleBBoxToPdf(calc.mapped, calc.pt, calc.dims)]
  /\ UNCHANGED main_vars

NextCalc == CalcRender \/ CalcMap \/ CalcInverse

SpecCalc == InitCalc /\ [][NextCalc]_vars

\* ================================================================ claims
HasNotice(kind) == \E i \in DOMAIN notices : notices[i].kind = kind
HasMessage(kind, msg) ==
  \E i \in DOMAIN notices : notices[i] = Notice(kind, msg)

\* C1: when the uploaded file is not a valid PDF, load_pdf returns no
\* document and shows an error, and the run ends with the "Invalid PDF"
\* message without extract_page_image or extract_text_from_pdf being called.
C1_InvalidUploadStops ==
  (uploaded \in Files /\ ~Docs[uploaded].valid /\ "load_pdf" \in calls)
    => /\ pdf = NoPdf
       /\ HasMessage("error", "Failed to load PDF")
       /\ "extract_page_image" \notin calls
       /\ "extract_text_from_pdf" \notin calls
       /\ pc \in {"check pdf", "done"}
       /\ pc = "done" => outcome = "invalid pdf"

C1_Witness ==
  /\ pc = "done" /\ uploaded = "bad" /\ "load_pdf" \in calls
  /\ outcome = "invalid pdf"

\* C2: the returned string has the header of page N exactly once for every
\* page whose confined text is non-empty and not at all for the other pages,
\* the headers come in increasing page order, and each is followed by a
\* newline and the text of its page.
ExtractReturned ==
  /\ "extract_text_from_pdf" \in calls
  /\ outcome # "uncaught exception"

C2_HeadersMatchPages ==
  ExtractReturned =>
    LET t == extracted_text
        pages == PagesOf(pdf)
        hp == {i \in DOMAIN t : t[i].k = "hdr"}
    IN  /\ \A n \in 1..Len(pages) :
             Cardinality({i \in hp : t[i].n = n})
               = IF PageExtractText(pages[n], scaled_bbox) # <<>> THEN 1 ELSE 0
        /\ \A i \in hp : t[i].n \in 1..Len(pages)
        /\ \A i, j \in hp : i < j => t[i].n < t[j].n
        /\ \A i \in hp :
             LET txt == PageExtractText(pages[t[i].n], scaled_bbox)
             IN  /\ i + 1 + Len(txt) <= Len(t)
                 /\ t[i + 1] = NL
                 /\ SubSeq(t, i + 2, i + 1 + Len(txt)) = txt

C2_Witness ==
  /\ ExtractReturned /\ pc = "done"
  /\ Len(PagesOf(pdf)) = 2
  /\ PageExtractText(PagesOf(pdf)[1], scaled_bbox) = <<>>
  /\ PageExtractText(PagesOf(pdf)[2], scaled_bbox) # <<>>

\* C3: a run whose last drawn rectangle is degenerate (zero width or zero
\* height) ends in the "no text found" outcome, never in an error.
Degenerate(b) == b # <<>> /\ (b[1] = b[3] \/ b[2] = b[4])

C3_DegenerateGivesNoText ==
  (pc = "done" /\ Degenerate(bbox))
    => /\ outcome = "no text"
       /\ HasNotice("warning")

\* C4: when the confined extraction raises on some page, the run ends with a
\* visible failure notice, shows no text, and does not show the neutral
\* "no text found" notice.
ExtractionRaised ==
  /\ scaled_bbox # <<>>
  /\ ExtractTextFromPdf(PagesOf(pdf), scaled_bbox).raised

C4_ExtractErrorReported ==
  (pc = "done" /\ ExtractionRaised)
    => /\ HasNotice("error")
       /\ outcome # "uncaught exception"
       /\ shown = <<>>
       /\ ~HasNotice("warning")

\* C5: when extract_page_image returns no image it has shown an error, the
\* run ends with "Failed to process the selected page.", and neither the
\* canvas nor scale_bbox_to_pdf nor extract_text_from_pdf is called.
C5_RenderFailureHalts ==
  ("extract_page_image" \in calls /\ ~img_pil)
    => /\ HasMessage("error", "Error processing page image")
       /\ calls \cap {"st_canvas", "scale_bbox_to_pdf",
                      "extract_text_from_pdf"} = {}
       /\ pc \in {"check img", "done"}
       /\ pc = "done" => /\ outcome = "render failed"
                         /\ HasMessage("error",
                              "Failed to process the selected page.")

C5_Witness ==
  /\ pc = "done" /\ "extract_page_image" \in calls /\ ~img_pil
  /\ outcome = "render failed"

\* C6: when a run is over, every document that load_pdf opened has been
\* closed.
C6_DocumentReleased == pc = "done" => openDocs = {}

\* C7 (as stated): the returned pixel dimensions are round(nativeW * s) by
\* round(nativeH * s).
C7_DimsAreRounded ==
  calc.pc \in {"rendered", "mapped", "back"} =>
    LET s == ScaleFactor(calc.w, calc.h)
    IN  calc.dims = <<PyRound(RMul(R(calc.w), s)), PyRound(RMul(R(calc.h), s))>>

\* C7 (amended): the returned pixel dimensions are the products truncated by
\* int(): on the axis that is not limiting, the floor of native * s; on the
\* limiting axis, where native * s is the bound itself, the bound, or the
\* bound minus one when the double product falls just below the bound.
C7_DimsAreTruncated ==
  calc.pc \in {"rendered", "mapped", "back"} =>
    LET w == calc.w
        h == calc.h
        widthLimits == MaxWidth * h <= MaxHeight * w
        heightLimits == MaxHeight * w <= MaxWidth * h
        expW == IF widthLimits
                THEN (IF w \in WidthDeficit THEN MaxWidth - 1 ELSE MaxWidth)
                ELSE (w * MaxHeight) \div h
        expH == IF heightLimits
                THEN (IF h \in HeightDeficit THEN MaxHeight - 1 ELSE MaxHeight)
                ELSE (h * MaxWidth) \div w
    IN  calc.dims = <<expW, expH>>

C7_Witness ==
  /\ calc.pc = "rendered"
  /\ LET s == ScaleFactor(calc.w, calc.h)
     IN  /\ ~IsInt(RMul(R(calc.h), s))
         /\ PyRound(RMul(R(calc.h), s)) # Floor(RMul(R(calc.h), s))

\* C8: with s = min(maxWidth / nativeW, maxHeight / nativeH), the returned
\* width is at most nativeW * s and less than one pixel below it, and the
\* returned height is at most nativeH * s and less than one pixel below it.
WithinOnePixel(d, fp) ==
  IF fp.below
  THEN RLess(R(d), fp.v) /\ RLeq(fp.v, R(d + 1))
  ELSE RLeq(R(d), fp.v) /\ RLess(fp.v, R(d + 1))

C8_AspectWithinOnePixel ==
  calc.pc \in {"rendered", "mapped", "back"} =>
    LET s == ScaleFactor(calc.w, calc.h)
    IN  /\ WithinOnePixel(calc.dims[1],
                          FloatProduct(calc.w, s, MaxWidth, WidthDeficit))
        /\ WithinOnePixel(calc.dims[2],
                          FloatProduct(calc.h, s, MaxHeight, HeightDeficit))

C8_Witness ==
  /\ calc.pc = "rendered"
  /\ calc.dims[1] < MaxWidth /\ calc.dims[2] < MaxHeight
  /\ calc.w # calc.h

\* C9: mapping a rectangle to point space and back, with the two dimension
\* pairs swapped, gives the rectangle again (over the rationals).
C9_RoundTrip == calc.pc = "back" => calc.back = calc.rect

C9_Witness ==
  /\ calc.pc = "back"
  /\ calc.mapped # calc.rect
  /\ calc.pt # <<calc.w, calc.h>>

\* C10: the text shown comes from the most recently drawn rectangle only:
\* it begins with a page header, has no header twice, and its words are
\* exactly the words of the document that lie inside the last object.
InLastObject(w) ==
  LET last == objects[Len(objects)]
  IN  /\ last.left * pdf_dims[1] <= w.x0 * canvas_dims[1]
      /\ w.x1 * canvas_dims[1] <= (last.left + last.width) * pdf_dims[1]
      /\ last.top * pdf_dims[2] <= w.y0 * canvas_dims[2]
      /\ w.y1 * canvas_dims[2] <= (last.top + last.height) * pdf_dims[2]

C10_OnlyLastRectangle ==
  (pc = "done" /\ outcome = "text") =>
    LET pages == PagesOf(pdf)
        words == UNION {{pages[n].words[j] : j \in DOMAIN pages[n].words} :
                          n \in DOMAIN pages}
    IN  /\ Len(shown) >= 3
        /\ shown[1] = NL /\ shown[2] = NL /\ shown[3].k = "hdr"
        /\ \A i, j \in DOMAIN shown :
             (i # j /\ shown[i].k = "hdr") => shown[j] # shown[i]
        /\ \A i \in DOMAIN shown :
             shown[i].k = "w" =>
               \E w \in words : w.s = shown[i].s /\ InLastObject(w)
        /\ \A w \in words :
             InLastObject(w) => \E i \in DOMAIN shown : shown[i] = Wd(w.s)

C10_Witness ==
  /\ pc = "done" /\ outcome = "text"
  /\ Len(objects) = 2 /\ objects[1] # objects[2]
  /\ prevText # <<>> /\ prevText # shown

====
